---- MODULE Spec2Model ----
(***************************************************************************)
(* Model of src/app.py: the six-step lesson wizard (session state and one  *)
(* action per button / script run), the slide-content parser, the fallback *)
(* slide sequence, the deck assembler and the narration client.            *)
(***************************************************************************)
EXTENDS Integers, Sequences, FiniteSets, TLC

(***************************************************************************)
(* Bounds of the model (not program constants).                            *)
(***************************************************************************)
MaxHistory == 1          \* "Create New Lesson" is explored while generation_history holds at most this many records
MaxNarrationFailures == 1 \* partial narration failures per run (all-fail is always explored)

(***************************************************************************)
(* Program constants.                                                      *)
(***************************************************************************)
MinSlideCount == 4
MaxSlideCount == 15
DefaultSlideCount == 8
FenceHeadLen == 7
FenceTailLen == 3
ResearchSourceLimit == 2000      \* content[:2000] in the research prompt
FactsSourceLimit == 2000         \* content[:2000] in the facts prompt
FactsResearchLimit == 1000       \* research_data['content'][:1000] in the facts prompt
OutlineSourceLimit == 1500       \* content[:1500] in the outline prompt
OutlineResearchLimit == 1500     \* research_data['content'][:1500] in the outline prompt
SlidesResearchLimit == 1000      \* research_data['content'][:1000] in the slide prompt

(***************************************************************************)
(* Python / JSON values, each carrying its type tag.                       *)
(***************************************************************************)
JStr(s) == [t |-> "str", v |-> s]
JInt(n) == [t |-> "int", v |-> n]
JList(q) == [t |-> "list", v |-> q]
JDict(f) == [t |-> "dict", v |-> f]
JNull == [t |-> "null"]
EmptyDict == [k \in {} |-> JNull]

\* Python truthiness of a value
Truthy(x) ==
    CASE x.t \in {"str", "bytes"} -> x.v # ""
      [] x.t = "int" -> x.v # 0
      [] x.t = "list" -> x.v # <<>>
      [] x.t = "dict" -> DOMAIN x.v # {}
      [] x.t = "pptx" -> TRUE
      [] OTHER -> FALSE

\* dict.get(key, default) on a plain mapping
Get(d, k, default) == IF k \in DOMAIN d THEN d[k] ELSE default

\* the five fields the slide prompt asks for in every object
RequiredFields == {"slide_number", "title", "content", "speaker_notes", "image_description"}

(***************************************************************************)
(* Text of a model response.  A text is a sequence of one-character        *)
(* strings, except that a whole JSON object is written as one element      *)
(* "{name}" standing for the many characters of that object (more than     *)
(* FenceHeadLen of them): a slice that ends inside an object leaves "?",   *)
(* the unparsable rest of it.                                              *)
(***************************************************************************)

\* the slide a fallback or a model object describes: a dict of tagged values
SlideDict(num, title, content, notes, layout) ==
    JDict([slide_number |-> num, title |-> title, subtitle |-> JStr("Sub"),
           content |-> content, speaker_notes |-> notes,
           image_description |-> JStr("Image"), layout_style |-> layout,
           design_notes |-> JStr("Design")])

Points2 == JList(<<JStr("p1"), JStr("p2")>>)

\* restriction of a dict to all keys but one
Without(d, k) == JDict([x \in (DOMAIN d.v) \ {k} |-> d.v[x]])

\* the objects a model response may contain, by name
ObjectOf(a) ==
    CASE a = "{s1}" -> SlideDict(JInt(1), JStr("A"), Points2, JStr("Note a. More"), JStr("title_slide"))
      [] a = "{s2}" -> SlideDict(JInt(2), JStr("B"), Points2, JStr("Note b"), JStr("content_image"))
      [] a = "{s5}" -> SlideDict(JInt(5), JStr("C"), Points2, JStr("Long speaker notes"), JStr("content_image"))
      [] a = "{notitle}" -> Without(SlideDict(JInt(1), JStr("A"), Points2, JStr("Note"), JStr("content_image")), "title")
      [] a = "{nonotes}" -> Without(SlideDict(JInt(2), JStr("B"), Points2, JStr("Note"), JStr("content_image")), "speaker_notes")
      [] a = "{nulltitle}" -> SlideDict(JInt(1), JNull, Points2, JStr("Note"), JStr("content_image"))
      [] a = "{nullnotes}" -> SlideDict(JInt(1), JStr("A"), Points2, JNull, JStr("content_image"))
      [] a = "{nullcontent}" -> SlideDict(JInt(1), JStr("A"), JNull, JStr("Note"), JStr("content_image"))
      [] OTHER -> JDict(EmptyDict)

ObjectNames == {"{s1}", "{s2}", "{s5}", "{notitle}", "{nonotes}", "{nulltitle}",
                "{nullnotes}", "{nullcontent}", "{}"}

Digits == {"0", "1", "7"}
DigitValue(c) == CASE c = "0" -> 0 [] c = "1" -> 1 [] OTHER -> 7

IsSpace(c) == c = " "

\* str.strip()
RECURSIVE LStrip(_)
LStrip(s) == IF s # <<>> /\ IsSpace(Head(s)) THEN LStrip(Tail(s)) ELSE s
RECURSIVE RStrip(_)
RStrip(s) == IF s # <<>> /\ IsSpace(s[Len(s)]) THEN RStrip(SubSeq(s, 1, Len(s) - 1)) ELSE s
Strip(s) == RStrip(LStrip(s))

\* s.startswith(p)
StartsWith(s, p) == Len(s) >= Len(p) /\ SubSeq(s, 1, Len(p)) = p
\* s.endswith(p)
EndsWith(s, p) == Len(s) >= Len(p) /\ SubSeq(s, Len(s) - Len(p) + 1, Len(s)) = p

\* s[k:]
RECURSIVE DropFront(_, _)
DropFront(s, k) ==
    IF k = 0 \/ s = <<>> THEN s
    ELSE IF Head(s) \in ObjectNames THEN <<"?">> \o Tail(s)
    ELSE DropFront(Tail(s), k - 1)

\* s[:-k]
RECURSIVE DropBack(_, _)
DropBack(s, k) ==
    IF k = 0 \/ s = <<>> THEN s
    ELSE IF s[Len(s)] \in ObjectNames THEN SubSeq(s, 1, Len(s) - 1) \o <<"?">>
    ELSE DropBack(SubSeq(s, 1, Len(s) - 1), k - 1)

JSONDecodeError == [t |-> "JSONDecodeError"]

\* a number: a non-empty run of digits
RECURSIVE NumberValue(_, _)
NumberValue(s, acc) == IF s = <<>> THEN acc ELSE NumberValue(Tail(s), 10 * acc + DigitValue(Head(s)))
IsNumber(s) == s # <<>> /\ \A i \in 1..Len(s) : s[i] \in Digits

\* one JSON value that is not a list: an object or a number
IsScalar(s) == (Len(s) = 1 /\ s[1] \in ObjectNames) \/ IsNumber(s)
ScalarValue(s) == IF s[1] \in ObjectNames THEN ObjectOf(s[1]) ELSE JInt(NumberValue(s, 0))

\* the items between the brackets of a list, split at the commas
RECURSIVE SplitItems(_, _, _)
SplitItems(s, cur, acc) ==
    IF s = <<>> THEN Append(acc, cur)
    ELSE IF Head(s) = "," THEN SplitItems(Tail(s), <<>>, Append(acc, cur))
    ELSE SplitItems(Tail(s), Append(cur, Head(s)), acc)

\* json.loads(s): the value, or JSONDecodeError
json_loads(s) ==
    LET w == Strip(s) IN
    IF w = <<>> THEN JSONDecodeError
    ELSE IF IsScalar(w) THEN ScalarValue(w)
    ELSE IF Len(w) >= 2 /\ w[1] = "[" /\ w[Len(w)] = "]" THEN
        LET inner == Strip(SubSeq(w, 2, Len(w) - 1))
            items == SplitItems(inner, <<>>, <<>>)
        IN  IF inner = <<>> THEN JList(<<>>)
            ELSE IF \A i \in 1..Len(items) : IsScalar(Strip(items[i]))
                 THEN JList([i \in 1..Len(items) |-> ScalarValue(Strip(items[i]))])
                 ELSE JSONDecodeError
    ELSE JSONDecodeError

(***************************************************************************)
(* Content client: the fallback slide sequence and the slide parser.       *)
(***************************************************************************)

Max(a, b) == IF a >= b THEN a ELSE b
Min(a, b) == IF a <= b THEN a ELSE b

FallbackIntro ==
    JDict([slide_number |-> JInt(1), title |-> JStr("Introduction & Overview"),
           subtitle |-> JStr("Setting the foundation"),
           content |-> JList(<<JStr("Welcome and context"), JStr("Learning objectives"), JStr("Journey ahead")>>),
           speaker_notes |-> JStr("Welcome students and establish the learning context. Clearly outline what they will discover and why it matters."),
           image_description |-> JStr("Engaging hero image representing the topic"),
           layout_style |-> JStr("title_slide"),
           design_notes |-> JStr("Bold, welcoming design with strong visual impact")])

FallbackHistory ==
    JDict([slide_number |-> JInt(2), title |-> JStr("Historical Foundation"),
           subtitle |-> JStr("Understanding the origins"),
           content |-> JList(<<JStr("Origins and background"), JStr("Key historical moments"), JStr("Evolution over time")>>),
           speaker_notes |-> JStr("Provide essential historical context that helps students understand how we arrived at current understanding."),
           image_description |-> JStr("Historical photograph or timeline visualization"),
           layout_style |-> JStr("content_image"),
           design_notes |-> JStr("Balanced layout with historical imagery")])

\* faulty variant: the added records are numbered like their titles, one behind
FallbackConcept_OneBehind(i) ==
    JDict([slide_number |-> JInt(i - 1), title |-> JStr("Key Concept " \o ToString(i - 1)),
           subtitle |-> JStr("Building understanding"),
           content |-> JList(<<JStr("Important aspect " \o ToString(i - 1)), JStr("Supporting details"), JStr("Real-world connections")>>),
           speaker_notes |-> JStr("Explore this key concept with examples and connections to student experience."),
           image_description |-> JStr("Relevant illustration for concept " \o ToString(i - 1)),
           layout_style |-> JStr("content_image"),
           design_notes |-> JStr("Clear, focused design emphasizing key points")])

FallbackConcept(i) ==
    JDict([slide_number |-> JInt(i), title |-> JStr("Key Concept " \o ToString(i - 1)),
           subtitle |-> JStr("Building understanding"),
           content |-> JList(<<JStr("Important aspect " \o ToString(i - 1)), JStr("Supporting details"), JStr("Real-world connections")>>),
           speaker_notes |-> JStr("Explore this key concept with examples and connections to student experience."),
           image_description |-> JStr("Relevant illustration for concept " \o ToString(i - 1)),
           layout_style |-> JStr("content_image"),
           design_notes |-> JStr("Clear, focused design emphasizing key points")])

\* the list built before the final slice: two fixed slides, then one per i in range(3, count + 1)
FallbackBuilt(count) ==
    [i \in 1..Max(2, count) |->
        IF i = 1 THEN FallbackIntro ELSE IF i = 2 THEN FallbackHistory ELSE FallbackConcept(i)]

\* q[:count], Python slice semantics
SliceTo(q, count) ==
    SubSeq(q, 1, IF count >= 0 THEN Min(count, Len(q)) ELSE Max(Len(q) + count, 0))

\* faulty variant: the slice at line 771 taken one record short
get_enhanced_fallback_slides_Short(count) == JList(SliceTo(FallbackBuilt(count), count - 1))

get_enhanced_fallback_slides(count) == JList(SliceTo(FallbackBuilt(count), count))

\* outcome of one language-model call: the call raises, or returns a text
Raised == [t |-> "raise"]
\* messages.create raising anthropic.AuthenticationError (a rejected key)
AuthenticationError == [t |-> "raise", kind |-> "auth"]
Returned(text) == [t |-> "text", v |-> text]

\* the text after the two "markdown" strips of lines 719-722
StripFence(content) ==
    LET c1 == IF StartsWith(content, <<"j", "s", "o", "n">>) THEN DropFront(content, FenceHeadLen) ELSE content
    IN  IF EndsWith(c1, <<>>) THEN DropBack(c1, FenceTailLen) ELSE c1

\* faulty variant: the except branch (lines 729-731) returns an empty list
\* instead of the fallback slides
generate_enhanced_slide_content_NoFallback(outcome, slide_count) ==
    IF outcome.t = "raise" THEN JList(<<>>)
    ELSE LET slides_content == json_loads(StripFence(Strip(outcome.v)))
         IN  IF slides_content = JSONDecodeError
             THEN get_enhanced_fallback_slides(slide_count)
             ELSE slides_content

generate_enhanced_slide_content(outcome, slide_count) ==
    IF outcome.t = "raise" THEN get_enhanced_fallback_slides(slide_count)
    ELSE LET slides_content == json_loads(StripFence(Strip(outcome.v)))
         IN  IF slides_content = JSONDecodeError
             THEN get_enhanced_fallback_slides(slide_count)
             ELSE slides_content

\* get_interesting_facts / create_advanced_lesson_outline: the text, or the literal error string
\* faulty variant: the except branch (lines 625-627) returns an empty string
get_interesting_facts_Silent(outcome) ==
    IF outcome.t = "raise" THEN "" ELSE outcome.v

get_interesting_facts(outcome) ==
    IF outcome.t = "raise" THEN "Unable to generate facts due to API error." ELSE outcome.v

create_advanced_lesson_outline(outcome) ==
    IF outcome.t = "raise" THEN "Unable to generate lesson outline due to API error." ELSE outcome.v

\* conduct_deep_research: a dict with content (and timestamp, depth on success)
conduct_deep_research(topic, outcome) ==
    IF outcome.t = "raise"
    THEN [content |-> "Research failed for " \o topic, topic |-> topic]
    ELSE [content |-> outcome.v, timestamp |-> "now", topic |-> topic, depth |-> "comprehensive"]

(***************************************************************************)
(* Prompts.  A text is known by its name and its length; the part of a     *)
(* prompt filled from a text is the text and how many of its first         *)
(* characters were put in.                                                 *)
(***************************************************************************)

\* len(s): the texts an external service or an upload supplies stand for
\* long texts, every other text has the length of its literal
Chars(s) ==
    CASE s = "Uploaded lesson text" -> 2400
      [] s = "Research text" -> 1600
      [] s = "Facts text" -> 900
      [] s = "Outline text" -> 1100
      [] s = "Long speaker notes" -> 640
      [] OTHER -> Len(s)

\* s[:n]
Prefix(s, n) == [of |-> s, chars |-> Min(Chars(s), n)]
\* {s} interpolated as it is
Whole(s) == [of |-> s, chars |-> Chars(s)]

\* the research_context line of a prompt: empty unless research_data is a
\* non-empty dict with a content key
research_context(research_data, n) ==
    IF DOMAIN research_data # {} /\ "content" \in DOMAIN research_data
    THEN Prefix(research_data["content"], n)
    ELSE Whole("")

\* lines 560-563
research_prompt(topic, content) ==
    [op |-> "research", topic |-> Whole(topic), source |-> Prefix(content, ResearchSourceLimit)]

\* lines 598-605
facts_prompt(topic, content, research_data) ==
    [op |-> "facts", topic |-> Whole(topic), source |-> Prefix(content, FactsSourceLimit),
     research |-> research_context(research_data, FactsResearchLimit)]

\* lines 632-641
outline_prompt(objectives, content, facts, research_data) ==
    [op |-> "outline", objectives |-> Whole(objectives),
     source |-> Prefix(content, OutlineSourceLimit), facts |-> Whole(facts),
     research |-> research_context(research_data, OutlineResearchLimit)]

\* lines 674-682
slides_prompt(outline, objectives, research_data, count) ==
    [op |-> "slides", count |-> count, outline |-> Whole(outline), objectives |-> Whole(objectives),
     research |-> research_context(research_data, SlidesResearchLimit)]

(***************************************************************************)
(* Deck assembler.  A deck is the list of its slides; a slide has the      *)
(* layout it was added with, the text of its title placeholder, the        *)
(* paragraphs of its second placeholder, and whether the theme was applied *)
(* (the last statement of the per-slide block).                            *)
(***************************************************************************)

Para(text) == [text |-> text, level |-> 0]

\* a slide as prs.slides.add_slide(layout) leaves it
AddedSlide(layout) == [layout |-> layout, title |-> "", body |-> <<Para("")>>, styled |-> FALSE]

IsStr(x) == x.t = "str"

\* the paragraphs added for the content points (lines 905-909)
RECURSIVE PointParas(_)
PointParas(points) ==
    IF points = <<>> THEN <<>>
    ELSE (IF Truthy(Head(points)) /\ IsStr(Head(points)) THEN <<Para(Head(points).v)>> ELSE <<>>)
         \o PointParas(Tail(points))

\* lines 870-912 for one dict record: the slide it leaves in the deck and
\* whether the block raised (a raise after add_slide leaves the slide as built so far)
ProcessSlide(d) ==
    LET layout_style == Get(d, "layout_style", JStr("content_image"))
        is_title == layout_style = JStr("title_slide")
        s0 == AddedSlide(IF is_title THEN 0 ELSE 1)
        title == Get(d, "title", JStr(""))
        s1 == [s0 EXCEPT !.title = title.v]
    IN  IF ~IsStr(title) THEN [slide |-> s0, raised |-> TRUE]
        ELSE IF is_title THEN
            LET subtitle_text == Get(d, "subtitle", JStr("AI-Generated Educational Content"))
            IN  IF ~IsStr(subtitle_text) THEN [slide |-> s1, raised |-> TRUE]
                ELSE [slide |-> [s1 EXCEPT !.body = <<Para(subtitle_text.v)>>, !.styled = TRUE],
                      raised |-> FALSE]
        ELSE
            LET sub == Get(d, "subtitle", JNull)
                content == Get(d, "content", JList(<<>>))
                cleared == <<Para("")>>
                with_sub == IF Truthy(sub) THEN cleared \o <<Para(IF IsStr(sub) THEN sub.v ELSE "")>>
                            ELSE cleared
            IN  IF Truthy(sub) /\ ~IsStr(sub)
                THEN [slide |-> [s1 EXCEPT !.body = with_sub], raised |-> TRUE]
                ELSE IF content.t # "list"
                THEN [slide |-> [s1 EXCEPT !.body = with_sub], raised |-> TRUE]
                ELSE [slide |-> [s1 EXCEPT !.body = with_sub \o PointParas(content.v), !.styled = TRUE],
                      raised |-> FALSE]

NoArtifact == JNull

\* create_sophisticated_powerpoint(slides_data, lesson_title, theme)
create_sophisticated_powerpoint(slides_data, lesson_title, theme) ==
    IF ~Truthy(slides_data) \/ slides_data.t # "list" THEN NoArtifact
    ELSE IF \E i \in 1..Len(slides_data.v) : slides_data.v[i].t # "dict"
         \* slide_data.get raises again inside the except block (line 915): outer except, None
         THEN NoArtifact
    ELSE [t |-> "pptx", theme |-> theme,
          slides |-> [i \in 1..Len(slides_data.v) |-> ProcessSlide(slides_data.v[i].v).slide]]

(***************************************************************************)
(* Narration client.                                                       *)
(***************************************************************************)
AudioBytes == [t |-> "bytes", v |-> "mp3"]
EmptyBytes == [t |-> "bytes", v |-> ""]

\* what the speech endpoint does with one request
SpeechOutcomes == {"ok", "empty", "http_error", "raise"}

\* generate_enhanced_audio(text, ...) under one outcome of requests.post
generate_enhanced_audio(text, outcome) ==
    CASE outcome = "ok" -> AudioBytes
      [] outcome = "empty" -> EmptyBytes
      [] OTHER -> JNull

(***************************************************************************)
(* Session state (st.session_state) and the environment.                   *)
(***************************************************************************)
VARIABLES
    claude_key,          \* sidebar text input: TRUE when non-empty
    elevenlabs_key,      \* sidebar text input: TRUE when non-empty
    apis_reachable,      \* environment: FALSE when every external call raises
    current_step,
    lesson_data,         \* dict: key -> value
    slides_approved,
    selected_theme,
    advanced_features,   \* dict written by render_advanced_features
    generation_history,
    pptx_buffer,         \* Absent until stored
    audio_files,         \* Absent until stored
    calls,               \* the external calls and deck assemblies of the last script run, in order
    derived_from,        \* the facts the stored outline, and the outline the stored slides, were generated from
    prompts,             \* the prompts submitted to the content client in the last script run, in order
    slide_response       \* what the slide call of the last script run came back with (NoResponse when it made none)

vars == <<claude_key, elevenlabs_key, apis_reachable, current_step, lesson_data,
          slides_approved, selected_theme, advanced_features, generation_history,
          pptx_buffer, audio_files, derived_from, calls, prompts, slide_response>>

session == <<current_step, lesson_data, slides_approved, selected_theme, advanced_features,
             generation_history, pptx_buffer, audio_files>>

Absent == [t |-> "absent"]
NoResponse == [t |-> "none"]
NoData == [k \in {} |-> ""]
\* lesson_data holds no outline and no slides
NotDerived == [outline |-> Absent, slides |-> Absent]

ThemeKeys == <<"minimalist", "dark", "colorful", "professional", "academic", "modern">>
ThemeSet == {ThemeKeys[i] : i \in 1..Len(ThemeKeys)}

\* next(t['name'] for t in [...] if t["key"] == selected_theme), lines 1723-1730
\* and 1758-1765: the display name, or StopIteration when no key matches
StopIteration == [t |-> "raise", kind |-> "StopIteration"]
theme_name(key) ==
    CASE key = "minimalist" -> JStr("Minimalist")
      [] key = "dark" -> JStr("Dark Mode")
      [] key = "colorful" -> JStr("Colorful")
      [] key = "professional" -> JStr("Professional")
      [] key = "academic" -> JStr("Academic")
      [] key = "modern" -> JStr("Modern")
      [] OTHER -> StopIteration

TemplateNames == <<"Scientific Discovery", "Historical Event", "Environmental Topic">>

TemplateData(name) ==
    CASE name = "Scientific Discovery" ->
            [title |-> "Breakthrough in Quantum Computing",
             objectives |-> "Students will understand quantum computing principles and their revolutionary potential.",
             content |-> "Quantum computing represents a paradigm shift in computational power..."]
      [] name = "Historical Event" ->
            [title |-> "The Fall of the Berlin Wall",
             objectives |-> "Students will analyze the causes and effects of the Berlin Wall's fall.",
             content |-> "The Berlin Wall stood as a symbol of division for 28 years..."]
      [] OTHER ->
            [title |-> "Climate Change Solutions",
             objectives |-> "Students will evaluate various approaches to addressing climate change.",
             content |-> "Climate change presents unprecedented challenges requiring innovative solutions..."]

Call(op, arg) == [op |-> op, arg |-> arg]

\* both keys entered: the script gets past lines 1278-1284 and 1320-1324
KeysPresent == claude_key /\ elevenlabs_key

\* what one language-model call can do
TextOutcomes(text) == IF apis_reachable THEN {Raised, Returned(text)} ELSE {Raised}

\* the backquote character (a TLA+ string cannot hold it)
Tick == "^"

\* the raw texts a slide call may return
SlideTexts ==
    { <<"[", "{s1}", ",", "{s2}", "]">>,
      <<Tick, Tick, Tick, "j", "s", "o", "n", " ", "[", "{s1}", ",", "{s2}", "]", " ", Tick, Tick, Tick>>,
      <<"[", "{s1}", ",", "{s2}", "]", Tick, Tick, Tick>>,
      <<"j", "s", "o", "n", " ", " ", " ", "[", "{s2}", ",", "{s5}", "]", Tick, Tick, Tick>>,
      <<"[", "{nonotes}", ",", "{nulltitle}", ",", "{nullnotes}", "]", Tick, Tick, Tick>>,
      <<"[", "{s1}", ",", "{notitle}", "]", Tick, Tick, Tick>>,
      <<"[", "]", Tick, Tick, Tick>>,
      <<"[", "7", "]", Tick, Tick, Tick>>,
      <<"7", "0", "0", "0">> }

SlideOutcomes ==
    IF apis_reachable THEN {Raised, AuthenticationError} \cup {Returned(x) : x \in SlideTexts} ELSE {Raised}

\* uploaded file: none, or a file of some kind
NoFile == "none"
FileKinds == {"text/plain", "undecodable"}

extract_text_from_file(uploaded_file) ==
    CASE uploaded_file = "text/plain" -> "Uploaded lesson text"
      [] uploaded_file = "undecodable" -> "Error reading file: invalid start byte"
      [] OTHER -> "Please use TXT files for best compatibility."

Init ==
    /\ claude_key = FALSE
    /\ elevenlabs_key = FALSE
    /\ apis_reachable \in BOOLEAN
    /\ current_step = 1
    /\ lesson_data = NoData
    /\ slides_approved = FALSE
    /\ selected_theme = "minimalist"
    /\ advanced_features = NoData
    /\ generation_history = <<>>
    /\ pptx_buffer = Absent
    /\ audio_files = Absent
    /\ derived_from = NotDerived
    /\ calls = <<>>
    /\ prompts = <<>>
    /\ slide_response = NoResponse

(***************************************************************************)
(* Rendering.  A script run that raises while drawing a step never reaches *)
(* the buttons below it (nor the other tabs).                              *)
(***************************************************************************)

\* lines 1617-1662: the slide previews of step 3 are drawn without raising
Step3Renders(data) ==
    LET sl == data["slides"] IN
    IF ~Truthy(sl) THEN TRUE
    ELSE /\ sl.t = "list"
         /\ \A i \in 1..Len(sl.v) :
               /\ sl.v[i].t = "dict"
               /\ Get(sl.v[i].v, "content", JList(<<>>)).t \in {"list", "str", "dict"}
               /\ {"slide_number", "title"} \subseteq DOMAIN sl.v[i].v
               /\ IsStr(Get(sl.v[i].v, "layout_style", JStr("standard")))

\* faulty variant: the page is drawn without the two early returns on a missing key
ButtonsShown_NoGate == current_step = 3 => Step3Renders(lesson_data)

\* the buttons of the current step are on the page
ButtonsShown ==
    /\ KeysPresent
    /\ current_step = 3 => Step3Renders(lesson_data)
    /\ current_step = 4 => slides_approved

(***************************************************************************)
(* Step 5: the generation run (lines 1744-1872).                           *)
(***************************************************************************)

\* speaker notes with the pause markers of lines 1816-1819 inserted
WithPauses(notes) == [t |-> "text", text |-> notes, pauses |-> TRUE]
Plain(notes) == [t |-> "text", text |-> notes, pauses |-> FALSE]
ReplaceRaised == [t |-> "raised"]

\* how many times ". ", "! " or "? " occurs in the speaker notes of the model
PauseSites(notes) ==
    CASE notes = "Note a. More" -> 1
      [] notes = "Long speaker notes" -> 5
      [] notes = "Welcome students and establish the learning context. Clearly outline what they will discover and why it matters." -> 1
      [] OTHER -> 0

\* len() of the text handed to the narration client: each replace of lines
\* 1817-1819 puts the four characters "... " after a sentence end
NarrationChars(text) ==
    Chars(text.text) + (IF text.pauses THEN 4 * PauseSites(text.text) ELSE 0)

\* the request of generate_enhanced_audio for slide i, "text": text (line 941),
\* and whether it came back with audio bytes that are not empty
Speech(i, text, audio) == [op |-> "tts", arg |-> i, text |-> text, audio |-> audio]

TitleText(d, default) ==
    LET x == Get(d, "title", JStr(default)) IN IF IsStr(x) THEN x.v ELSE "None"

\* lines 1812-1819 for slide i: the text handed to the narration client, or
\* "raised" when .replace is called on something that is no string
NarrationText(d, i, include_pauses) ==
    LET speaker_notes == Get(d, "speaker_notes",
                             JStr("This is slide " \o ToString(i) \o ": " \o TitleText(d, "Untitled")))
    IN  IF include_pauses
        THEN IF IsStr(speaker_notes) THEN WithPauses(speaker_notes.v) ELSE ReplaceRaised
        ELSE IF IsStr(speaker_notes) THEN Plain(speaker_notes.v) ELSE Plain("None")

\* line 1828: the file name, keyed by the slide position
AudioFileName(d, i) == [index |-> i, stem |-> TitleText(d, "untitled"), ext |-> "mp3"]

\* one pass of the loop body: did it call the narration client, and what did it append
NarrationStep(d, i, include_pauses, outcome) ==
    LET text == NarrationText(d, i, include_pauses)
        called == text # ReplaceRaised
        audio_content == generate_enhanced_audio(text, outcome)
        named == IsStr(Get(d, "title", JStr("untitled")))
    IN  [called |-> called,
         text |-> text,
         audio |-> called /\ Truthy(audio_content),
         appended |-> IF called /\ Truthy(audio_content) /\ named
                      THEN <<[name |-> AudioFileName(d, i), data |-> audio_content]>>
                      ELSE <<>>]

RECURSIVE NarrationLoop_StopAtFailure(_, _, _, _, _)
\* faulty variant: the loop ends at the first slide that yields no audio file
NarrationLoop_StopAtFailure(slides, i, include_pauses, outcomes, acc) ==
    IF i > Len(slides) THEN acc
    ELSE LET r == NarrationStep(slides[i].v, i, include_pauses, outcomes[i])
             next == [calls |-> acc.calls \o (IF r.called THEN <<Speech(i, r.text, r.audio)>> ELSE <<>>),
                      files |-> acc.files \o r.appended]
         IN  IF r.appended = <<>> THEN next
             ELSE NarrationLoop_StopAtFailure(slides, i + 1, include_pauses, outcomes, next)

RECURSIVE NarrationLoop(_, _, _, _, _)
\* slides i..n in order: the calls made and the files appended
NarrationLoop(slides, i, include_pauses, outcomes, acc) ==
    IF i > Len(slides) THEN acc
    ELSE LET r == NarrationStep(slides[i].v, i, include_pauses, outcomes[i])
         IN  NarrationLoop(slides, i + 1, include_pauses, outcomes,
                [calls |-> acc.calls \o (IF r.called THEN <<Speech(i, r.text, r.audio)>> ELSE <<>>),
                 files |-> acc.files \o r.appended])

\* the sets of slides whose narration fails in one run
FailureSets(n) ==
    {F \in SUBSET (1..n) : Cardinality(F) <= MaxNarrationFailures} \cup {1..n}

\* the outcomes of the narration requests of one run
NarrationOutcomes(n) ==
    IF apis_reachable
    THEN {[i \in 1..n |-> IF i \in F THEN kind ELSE "ok"] :
              F \in FailureSets(n), kind \in SpeechOutcomes \ {"ok"}}
    ELSE {[i \in 1..n |-> "raise"]}

\* first slide whose title key is missing (line 1808 raises KeyError there), or 0
RECURSIVE FirstUntitled(_, _)
FirstUntitled(slides, i) ==
    IF i > Len(slides) THEN 0
    ELSE IF "title" \notin DOMAIN slides[i].v THEN i
    ELSE FirstUntitled(slides, i + 1)

\* faulty variant: the narration loop placed ahead of the deck assembly
RunCalls_NarrationFirst(deck_call, narration_calls) == narration_calls \o deck_call

\* the order of the generation step: the deck assembly (lines 1774-1782), then,
\* when it returned a deck, the narration loop (lines 1804-1831)
RunCalls(deck_call, narration_calls) == deck_call \o narration_calls

generation_record(data, theme, audio) ==
    [title |-> data["title"], success |-> TRUE]

\* faulty variant: a run whose deck assembly returned nothing still stores and advances
Generate_IgnoreFailure ==
    LET data == lesson_data
        include_pauses == Get(advanced_features, "include_pauses", TRUE)
        deck == create_sophisticated_powerpoint(data["slides"], data["title"], selected_theme)
    IN  IF ~slides_approved
        THEN /\ calls' = <<>> /\ slide_response' = NoResponse /\ prompts' = <<>>
             /\ UNCHANGED <<current_step, lesson_data, slides_approved, selected_theme,
                            generation_history, pptx_buffer, audio_files>>
        ELSE IF ~Truthy(deck)
        THEN /\ calls' = <<Call("deck", 0)>> /\ slide_response' = NoResponse /\ prompts' = <<>>
             /\ pptx_buffer' = deck
             /\ audio_files' = JList(<<>>)
             /\ current_step' = 6
             /\ UNCHANGED <<lesson_data, slides_approved, selected_theme, generation_history>>
        ELSE LET slides == data["slides"].v
                 crash == FirstUntitled(slides, 1)
             IN  \E outcomes \in NarrationOutcomes(Len(slides)) :
                    LET upto == IF crash = 0 THEN slides ELSE SubSeq(slides, 1, crash - 1)
                        run == NarrationLoop(upto, 1, include_pauses, outcomes,
                                             [calls |-> <<>>, files |-> <<>>])
                    IN  /\ calls' = RunCalls(<<Call("deck", 0)>>, run.calls)
                        /\ slide_response' = NoResponse /\ prompts' = <<>>
                        /\ IF crash # 0
                           THEN UNCHANGED <<current_step, generation_history, pptx_buffer, audio_files>>
                           ELSE /\ pptx_buffer' = deck
                                /\ audio_files' = JList(run.files)
                                /\ generation_history' =
                                      Append(generation_history, generation_record(data, selected_theme, run.files))
                                /\ current_step' = 6
                        /\ UNCHANGED <<lesson_data, slides_approved, selected_theme>>

\* the script run at step 5, on the session variables other than advanced_features
Generate ==
    LET data == lesson_data
        include_pauses == Get(advanced_features, "include_pauses", TRUE)
        deck == create_sophisticated_powerpoint(data["slides"], data["title"], selected_theme)
    IN  IF ~slides_approved
        THEN /\ calls' = <<>> /\ slide_response' = NoResponse /\ prompts' = <<>>
             /\ UNCHANGED <<current_step, lesson_data, slides_approved, selected_theme,
                            generation_history, pptx_buffer, audio_files>>
        ELSE IF ~Truthy(deck)
        THEN /\ calls' = <<Call("deck", 0)>> /\ slide_response' = NoResponse /\ prompts' = <<>>
             /\ UNCHANGED <<current_step, lesson_data, slides_approved, selected_theme,
                            generation_history, pptx_buffer, audio_files>>
        ELSE LET slides == data["slides"].v
                 crash == FirstUntitled(slides, 1)
             IN  \E outcomes \in NarrationOutcomes(Len(slides)) :
                    LET upto == IF crash = 0 THEN slides ELSE SubSeq(slides, 1, crash - 1)
                        run == NarrationLoop(upto, 1, include_pauses, outcomes,
                                             [calls |-> <<>>, files |-> <<>>])
                    IN  /\ calls' = RunCalls(<<Call("deck", 0)>>, run.calls)
                        /\ slide_response' = NoResponse /\ prompts' = <<>>
                        /\ IF crash # 0
                           THEN UNCHANGED <<current_step, generation_history, pptx_buffer, audio_files>>
                           ELSE /\ pptx_buffer' = deck
                                /\ audio_files' = JList(run.files)
                                /\ generation_history' =
                                      Append(generation_history, generation_record(data, selected_theme, run.files))
                                /\ current_step' = 6
                        /\ UNCHANGED <<lesson_data, slides_approved, selected_theme>>

(***************************************************************************)
(* The wizard: one action per button, per widget change and per script run *)
(* of step 5.                                                              *)
(***************************************************************************)
NoSlideCall == slide_response' = NoResponse
NoPrompt == prompts' = <<>>
Quiet == calls' = <<>> /\ NoPrompt /\ NoSlideCall
KeepEnv == UNCHANGED <<claude_key, elevenlabs_key, apis_reachable>>

\* the widget positions explored
SliderChoices == {MinSlideCount}
ThemeChoices == {"minimalist", "dark"}
TemplateChoices == {"Scientific Discovery"}

slide_count == Get(advanced_features, "slide_count", DefaultSlideCount)

\* sidebar: the Claude key field is edited (lines 1267-1271); the script reruns
SetClaudeKey(present) ==
    /\ claude_key # present
    /\ claude_key' = present
    /\ UNCHANGED <<elevenlabs_key, apis_reachable, advanced_features, derived_from>>
    /\ IF present /\ elevenlabs_key /\ current_step = 5
       THEN Generate
       ELSE Quiet /\ UNCHANGED <<current_step, lesson_data, slides_approved, selected_theme,
                                 generation_history, pptx_buffer, audio_files>>

\* sidebar: the ElevenLabs key field is edited (lines 1272-1276); the script reruns
SetElevenlabsKey(present) ==
    /\ elevenlabs_key # present
    /\ elevenlabs_key' = present
    /\ UNCHANGED <<claude_key, apis_reachable, advanced_features, derived_from>>
    /\ IF present /\ claude_key /\ current_step = 5
       THEN Generate
       ELSE Quiet /\ UNCHANGED <<current_step, lesson_data, slides_approved, selected_theme,
                                 generation_history, pptx_buffer, audio_files>>

\* tab 2: the slide-count slider is moved; render_advanced_features stores the widgets
SetSlideCount(n) ==
    /\ ButtonsShown
    /\ Get(advanced_features, "slide_count", 0) # n
    /\ KeepEnv /\ UNCHANGED derived_from
    /\ IF current_step = 5
       THEN /\ Generate
            /\ advanced_features' =
                 IF slides_approved /\ Truthy(create_sophisticated_powerpoint(
                        lesson_data["slides"], lesson_data["title"], selected_theme))
                    /\ FirstUntitled(lesson_data["slides"].v, 1) # 0
                 THEN advanced_features
                 ELSE [slide_count |-> n, include_pauses |-> TRUE]
       ELSE /\ Quiet
            /\ advanced_features' = [slide_count |-> n, include_pauses |-> TRUE]
            /\ UNCHANGED <<current_step, lesson_data, slides_approved, selected_theme,
                           generation_history, pptx_buffer, audio_files>>

\* faulty variant: the template buttons are drawn at every step
PickTemplate_AnyStep(name) ==
    /\ ButtonsShown
    /\ lesson_data' = [title |-> TemplateData(name).title,
                       subject |-> "Science",
                       grade_level |-> "High School (9-12)",
                       duration |-> 45,
                       objectives |-> TemplateData(name).objectives,
                       content |-> TemplateData(name).content]
    /\ Quiet /\ KeepEnv /\ derived_from' = NotDerived
    /\ UNCHANGED <<current_step, slides_approved, selected_theme, advanced_features,
                   generation_history, pptx_buffer, audio_files>>

\* step 1: a quick-start template button (lines 1392-1405)
PickTemplate(name) ==
    /\ ButtonsShown /\ current_step = 1
    /\ lesson_data' = [title |-> TemplateData(name).title,
                       subject |-> "Science",
                       grade_level |-> "High School (9-12)",
                       duration |-> 45,
                       objectives |-> TemplateData(name).objectives,
                       content |-> TemplateData(name).content]
    /\ Quiet /\ KeepEnv /\ derived_from' = NotDerived
    /\ UNCHANGED <<current_step, slides_approved, selected_theme, advanced_features,
                   generation_history, pptx_buffer, audio_files>>

\* faulty variant: the button is shown without a file and without lesson data
BeginAnalysis_NoSource(lesson_title, objectives, uploaded_file, auto_research, research_outcome, facts_outcome) ==
    /\ ButtonsShown /\ current_step = 1
    /\ lesson_title # "" /\ objectives # ""
    /\ LET content == IF uploaded_file # NoFile
                      THEN extract_text_from_file(uploaded_file)
                      ELSE Get(lesson_data, "content", "")
           research_data == IF auto_research
                            THEN conduct_deep_research(lesson_title, research_outcome)
                            ELSE NoData
           facts == get_interesting_facts(facts_outcome)
       IN  /\ lesson_data' = [title |-> lesson_title,
                              subject |-> "Science",
                              grade_level |-> "Elementary (K-5)",
                              duration |-> 45,
                              objectives |-> objectives,
                              content |-> content,
                              facts |-> facts,
                              research_data |-> research_data,
                              auto_research |-> auto_research,
                              research_depth |-> "Comprehensive"]
           /\ calls' = (IF auto_research THEN <<Call("research", 0)>> ELSE <<>>) \o <<Call("facts", 0)>>
           /\ prompts' = (IF auto_research THEN <<research_prompt(lesson_title, content)>> ELSE <<>>)
                            \o <<facts_prompt(lesson_title, content, research_data)>>
           /\ NoSlideCall
    /\ current_step' = 2
    /\ KeepEnv /\ derived_from' = NotDerived
    /\ UNCHANGED <<slides_approved, selected_theme, advanced_features,
                   generation_history, pptx_buffer, audio_files>>

\* step 1: "Begin Enhanced Analysis" (lines 1435-1464)
BeginAnalysis(lesson_title, objectives, uploaded_file, auto_research, research_outcome, facts_outcome) ==
    /\ ButtonsShown /\ current_step = 1
    /\ lesson_title # "" /\ objectives # ""
    /\ uploaded_file # NoFile \/ DOMAIN lesson_data # {}
    /\ LET content == IF uploaded_file # NoFile
                      THEN extract_text_from_file(uploaded_file)
                      ELSE Get(lesson_data, "content", "")
           research_data == IF auto_research
                            THEN conduct_deep_research(lesson_title, research_outcome)
                            ELSE NoData
           facts == get_interesting_facts(facts_outcome)
       IN  /\ lesson_data' = [title |-> lesson_title,
                              subject |-> "Science",
                              grade_level |-> "Elementary (K-5)",
                              duration |-> 45,
                              objectives |-> objectives,
                              content |-> content,
                              facts |-> facts,
                              research_data |-> research_data,
                              auto_research |-> auto_research,
                              research_depth |-> "Comprehensive"]
           /\ calls' = (IF auto_research THEN <<Call("research", 0)>> ELSE <<>>) \o <<Call("facts", 0)>>
           /\ prompts' = (IF auto_research THEN <<research_prompt(lesson_title, content)>> ELSE <<>>)
                            \o <<facts_prompt(lesson_title, content, research_data)>>
           /\ NoSlideCall
    /\ current_step' = 2
    /\ KeepEnv /\ derived_from' = NotDerived
    /\ UNCHANGED <<slides_approved, selected_theme, advanced_features,
                   generation_history, pptx_buffer, audio_files>>

\* the values typed and picked on the step-1 form
Titles == {"", "Volcanoes"}
Objectives == {"", "Explain how eruptions happen"}

Submit ==
    \E lesson_title \in Titles, objectives \in Objectives,
       uploaded_file \in {NoFile} \cup FileKinds, auto_research \in BOOLEAN,
       research_outcome \in TextOutcomes("Research text"),
       facts_outcome \in TextOutcomes("Facts text") :
        /\ auto_research \/ research_outcome = Raised
        /\ BeginAnalysis(lesson_title, objectives, uploaded_file, auto_research,
                         research_outcome, facts_outcome)

\* faulty variant: going back withdraws the approval
Back_Unapprove ==
    /\ ButtonsShown /\ current_step \in {2, 3, 4}
    /\ current_step' = current_step - 1
    /\ slides_approved' = FALSE
    /\ Quiet /\ KeepEnv /\ UNCHANGED derived_from
    /\ UNCHANGED <<lesson_data, selected_theme, advanced_features,
                   generation_history, pptx_buffer, audio_files>>

\* a back button: steps 2, 3 and 4 (lines 1550-1553, 1672-1675, 1717-1720)
Back ==
    /\ ButtonsShown /\ current_step \in {2, 3, 4}
    /\ current_step' = current_step - 1
    /\ Quiet /\ KeepEnv /\ UNCHANGED derived_from
    /\ UNCHANGED <<lesson_data, slides_approved, selected_theme, advanced_features,
                   generation_history, pptx_buffer, audio_files>>

\* step 2: "Re-research" (lines 1555-1560)
ReResearch ==
    /\ ButtonsShown /\ current_step = 2
    /\ \E outcome \in TextOutcomes("Research text") :
          lesson_data' = [lesson_data EXCEPT
                             !["research_data"] = conduct_deep_research(lesson_data["title"], outcome)]
    /\ calls' = <<Call("research", 0)>> /\ NoSlideCall
    /\ prompts' = <<research_prompt(lesson_data["title"], lesson_data["content"])>>
    /\ KeepEnv /\ UNCHANGED derived_from
    /\ UNCHANGED <<current_step, slides_approved, selected_theme, advanced_features,
                   generation_history, pptx_buffer, audio_files>>

\* faulty variant: the new facts are stored under the content key
NewFacts_OverContent ==
    /\ ButtonsShown /\ current_step = 2
    /\ \E outcome \in TextOutcomes("Facts text") :
          lesson_data' = [lesson_data EXCEPT !["content"] = get_interesting_facts(outcome)]
    /\ calls' = <<Call("facts", 0)>> /\ NoSlideCall
    /\ prompts' = <<facts_prompt(lesson_data["title"], lesson_data["content"],
                                 Get(lesson_data, "research_data", NoData))>>
    /\ KeepEnv /\ UNCHANGED derived_from
    /\ UNCHANGED <<current_step, slides_approved, selected_theme, advanced_features,
                   generation_history, pptx_buffer, audio_files>>

\* faulty variant: the stored outline and slides are dropped with the old facts
NewFacts_DropDerived ==
    /\ ButtonsShown /\ current_step = 2
    /\ \E outcome \in TextOutcomes("Facts text") :
          lesson_data' = [k \in DOMAIN lesson_data \ {"outline", "slides"} |->
                             IF k = "facts" THEN get_interesting_facts(outcome) ELSE lesson_data[k]]
    /\ calls' = <<Call("facts", 0)>> /\ NoSlideCall
    /\ prompts' = <<facts_prompt(lesson_data["title"], lesson_data["content"],
                                 Get(lesson_data, "research_data", NoData))>>
    /\ KeepEnv /\ UNCHANGED derived_from
    /\ UNCHANGED <<current_step, slides_approved, selected_theme, advanced_features,
                   generation_history, pptx_buffer, audio_files>>

\* step 2: "New Facts" (lines 1562-1571)
NewFacts ==
    /\ ButtonsShown /\ current_step = 2
    /\ \E outcome \in TextOutcomes("Facts text") :
          lesson_data' = [lesson_data EXCEPT !["facts"] = get_interesting_facts(outcome)]
    /\ calls' = <<Call("facts", 0)>> /\ NoSlideCall
    /\ prompts' = <<facts_prompt(lesson_data["title"], lesson_data["content"],
                                 Get(lesson_data, "research_data", NoData))>>
    /\ KeepEnv /\ UNCHANGED derived_from
    /\ UNCHANGED <<current_step, slides_approved, selected_theme, advanced_features,
                   generation_history, pptx_buffer, audio_files>>

\* d[k] = x on a dict, adding the key when it is new
Put(d, k, x) == [y \in DOMAIN d \cup {k} |-> IF y = k THEN x ELSE d[y]]

\* faulty variant: an outline that is already stored is kept and only the
\* slides are generated again
CreateOutline_KeepOutline ==
    /\ ButtonsShown /\ current_step = 2
    /\ \E outline_outcome \in TextOutcomes("Outline text"), slides_outcome \in SlideOutcomes :
          LET kept == "outline" \in DOMAIN lesson_data
              outline == IF kept THEN lesson_data["outline"]
                         ELSE create_advanced_lesson_outline(outline_outcome)
              slides == generate_enhanced_slide_content(slides_outcome, slide_count)
              asked == slides_prompt(outline, lesson_data["objectives"],
                                     Get(lesson_data, "research_data", NoData), slide_count)
          IN  /\ lesson_data' = Put(Put(lesson_data, "outline", outline), "slides", slides)
              /\ slide_response' = slides_outcome
              /\ prompts' = (IF kept THEN <<>>
                             ELSE <<outline_prompt(lesson_data["objectives"], lesson_data["content"],
                                                   lesson_data["facts"],
                                                   Get(lesson_data, "research_data", NoData))>>)
                            \o <<asked>>
              /\ derived_from' = [outline |-> IF kept THEN derived_from.outline
                                              ELSE JStr(lesson_data["facts"]),
                                  slides |-> JStr(asked.outline.of)]
    /\ calls' = <<Call("outline", 0), Call("slides", 0)>>
    /\ current_step' = 3
    /\ KeepEnv
    /\ UNCHANGED <<slides_approved, selected_theme, advanced_features,
                   generation_history, pptx_buffer, audio_files>>

\* step 2: "Create Outline" (lines 1573-1596)
CreateOutline ==
    /\ ButtonsShown /\ current_step = 2
    /\ \E outline_outcome \in TextOutcomes("Outline text"), slides_outcome \in SlideOutcomes :
          LET outline == create_advanced_lesson_outline(outline_outcome)
              slides == generate_enhanced_slide_content(slides_outcome, slide_count)
          IN  /\ lesson_data' = Put(Put(lesson_data, "outline", outline), "slides", slides)
              /\ slide_response' = slides_outcome
              /\ prompts' = <<outline_prompt(lesson_data["objectives"], lesson_data["content"],
                                             lesson_data["facts"], Get(lesson_data, "research_data", NoData)),
                              slides_prompt(outline, lesson_data["objectives"],
                                            Get(lesson_data, "research_data", NoData), slide_count)>>
    /\ calls' = <<Call("outline", 0), Call("slides", 0)>>
    /\ current_step' = 3
    /\ KeepEnv
    /\ derived_from' = [outline |-> JStr(prompts'[1].facts.of), slides |-> JStr(prompts'[2].outline.of)]
    /\ UNCHANGED <<slides_approved, selected_theme, advanced_features,
                   generation_history, pptx_buffer, audio_files>>

\* faulty variant: regenerating the slides withdraws the approval
RegenerateSlides_Unapprove ==
    /\ ButtonsShown /\ current_step = 3
    /\ \E slides_outcome \in SlideOutcomes :
          /\ lesson_data' = Put(lesson_data, "slides",
                                generate_enhanced_slide_content(slides_outcome, slide_count))
          /\ slide_response' = slides_outcome
    /\ calls' = <<Call("slides", 0)>>
    /\ prompts' = <<slides_prompt(lesson_data["outline"], lesson_data["objectives"],
                                  Get(lesson_data, "research_data", NoData), slide_count)>>
    /\ slides_approved' = FALSE
    /\ KeepEnv /\ derived_from' = [derived_from EXCEPT !.slides = JStr(prompts'[1].outline.of)]
    /\ UNCHANGED <<current_step, selected_theme, advanced_features,
                   generation_history, pptx_buffer, audio_files>>

\* faulty variant: the new records are appended to the stored ones
RegenerateSlides_Append ==
    /\ ButtonsShown /\ current_step = 3
    /\ \E slides_outcome \in SlideOutcomes :
          LET new == generate_enhanced_slide_content(slides_outcome, slide_count)
              old == lesson_data["slides"]
          IN  /\ lesson_data' = Put(lesson_data, "slides",
                                    IF old.t = "list" /\ new.t = "list" THEN JList(old.v \o new.v) ELSE new)
              /\ slide_response' = slides_outcome
    /\ calls' = <<Call("slides", 0)>>
    /\ prompts' = <<slides_prompt(lesson_data["outline"], lesson_data["objectives"],
                                  Get(lesson_data, "research_data", NoData), slide_count)>>
    /\ KeepEnv /\ derived_from' = [derived_from EXCEPT !.slides = JStr(prompts'[1].outline.of)]
    /\ UNCHANGED <<current_step, slides_approved, selected_theme, advanced_features,
                   generation_history, pptx_buffer, audio_files>>

\* step 3: "Regenerate Slides" (lines 1677-1688)
RegenerateSlides ==
    /\ ButtonsShown /\ current_step = 3
    /\ \E slides_outcome \in SlideOutcomes :
          /\ lesson_data' = Put(lesson_data, "slides",
                                generate_enhanced_slide_content(slides_outcome, slide_count))
          /\ slide_response' = slides_outcome
    /\ calls' = <<Call("slides", 0)>>
    /\ prompts' = <<slides_prompt(lesson_data["outline"], lesson_data["objectives"],
                                  Get(lesson_data, "research_data", NoData), slide_count)>>
    /\ KeepEnv /\ derived_from' = [derived_from EXCEPT !.slides = JStr(prompts'[1].outline.of)]
    /\ UNCHANGED <<current_step, slides_approved, selected_theme, advanced_features,
                   generation_history, pptx_buffer, audio_files>>

\* faulty variant: the button advances the step without setting the flag
ApproveAndStyle_NoFlag ==
    /\ ButtonsShown /\ current_step = 3
    /\ current_step' = 4
    /\ Quiet /\ KeepEnv /\ UNCHANGED derived_from
    /\ UNCHANGED <<lesson_data, slides_approved, selected_theme, advanced_features,
                   generation_history, pptx_buffer, audio_files>>

\* step 3: "Approve & Style" (lines 1694-1698)
ApproveAndStyle ==
    /\ ButtonsShown /\ current_step = 3
    /\ slides_approved' = TRUE
    /\ current_step' = 4
    /\ Quiet /\ KeepEnv /\ UNCHANGED derived_from
    /\ UNCHANGED <<lesson_data, selected_theme, advanced_features,
                   generation_history, pptx_buffer, audio_files>>

\* faulty variant: the button stores the display name of the theme
SelectTheme_StoreName(key) ==
    /\ ButtonsShown /\ current_step = 4
    /\ selected_theme' = theme_name(key).v
    /\ Quiet /\ KeepEnv /\ UNCHANGED derived_from
    /\ UNCHANGED <<current_step, lesson_data, slides_approved, advanced_features,
                   generation_history, pptx_buffer, audio_files>>

\* faulty variant: the theme buttons are also drawn on the results page
SelectTheme_AtResults(key) ==
    /\ ButtonsShown /\ current_step \in {4, 6}
    /\ selected_theme' = key
    /\ Quiet /\ KeepEnv /\ UNCHANGED derived_from
    /\ UNCHANGED <<current_step, lesson_data, slides_approved, advanced_features,
                   generation_history, pptx_buffer, audio_files>>

\* step 4: a "Select <theme>" button (lines 1029-1031)
SelectTheme(key) ==
    /\ ButtonsShown /\ current_step = 4
    /\ selected_theme' = key
    /\ Quiet /\ KeepEnv /\ UNCHANGED derived_from
    /\ UNCHANGED <<current_step, lesson_data, slides_approved, advanced_features,
                   generation_history, pptx_buffer, audio_files>>

\* faulty variant: the button stores 6, passing over the generation step
GenerateMaterials_Skip ==
    /\ ButtonsShown /\ current_step = 4
    /\ current_step' = 6
    /\ Quiet /\ KeepEnv /\ UNCHANGED derived_from
    /\ UNCHANGED <<lesson_data, slides_approved, selected_theme, advanced_features,
                   generation_history, pptx_buffer, audio_files>>

\* step 4: "Generate Materials" (lines 1738-1741)
GenerateMaterials ==
    /\ ButtonsShown /\ current_step = 4
    /\ current_step' = 5
    /\ Quiet /\ KeepEnv /\ UNCHANGED derived_from
    /\ UNCHANGED <<lesson_data, slides_approved, selected_theme, advanced_features,
                   generation_history, pptx_buffer, audio_files>>

\* step 5: the script run that follows (and every later rerun while the step is 5)
Step5Run ==
    /\ KeysPresent /\ current_step = 5
    /\ Generate
    /\ KeepEnv /\ UNCHANGED derived_from
    /\ UNCHANGED advanced_features

\* faulty variant: pptx_buffer and audio_files are among the keys kept
CreateNewLesson_KeepArtifacts ==
    /\ ButtonsShown /\ current_step = 6
    /\ Len(generation_history) <= MaxHistory
    /\ current_step' = 1
    /\ lesson_data' = NoData
    /\ slides_approved' = FALSE
    /\ selected_theme' = "minimalist"
    /\ Quiet /\ KeepEnv /\ derived_from' = NotDerived
    /\ UNCHANGED <<advanced_features, generation_history, pptx_buffer, audio_files>>

\* faulty variant: generation_history is not among the keys kept
CreateNewLesson_ClearHistory ==
    /\ ButtonsShown /\ current_step = 6
    /\ Len(generation_history) <= MaxHistory
    /\ current_step' = 1
    /\ lesson_data' = NoData
    /\ slides_approved' = FALSE
    /\ selected_theme' = "minimalist"
    /\ pptx_buffer' = Absent
    /\ audio_files' = Absent
    /\ generation_history' = <<>>
    /\ Quiet /\ KeepEnv /\ derived_from' = NotDerived
    /\ UNCHANGED advanced_features

\* step 6: "Create New Lesson" (lines 2047-2055), then the initialisation of lines 520-536
CreateNewLesson ==
    /\ ButtonsShown /\ current_step = 6
    /\ Len(generation_history) <= MaxHistory
    /\ current_step' = 1
    /\ lesson_data' = NoData
    /\ slides_approved' = FALSE
    /\ selected_theme' = "minimalist"
    /\ pptx_buffer' = Absent
    /\ audio_files' = Absent
    /\ Quiet /\ KeepEnv /\ derived_from' = NotDerived
    /\ UNCHANGED <<advanced_features, generation_history>>

Next ==
    \/ \E present \in BOOLEAN : SetClaudeKey(present)
    \/ \E present \in BOOLEAN : SetElevenlabsKey(present)
    \/ \E n \in SliderChoices : SetSlideCount(n)
    \/ \E name \in TemplateChoices : PickTemplate(name)
    \/ Submit
    \/ Back
    \/ ReResearch
    \/ NewFacts
    \/ CreateOutline
    \/ RegenerateSlides
    \/ ApproveAndStyle
    \/ \E key \in ThemeChoices : SelectTheme(key)
    \/ GenerateMaterials
    \/ Step5Run
    \/ CreateNewLesson

Spec == Init /\ [][Next]_vars

(***************************************************************************)
(* The wizard driven forward: the same actions without the back buttons,   *)
(* "Create New Lesson" and the clearing of a key, by a user who keeps      *)
(* pressing the next button of each step.                                  *)
(***************************************************************************)
NextForward ==
    \/ SetClaudeKey(TRUE)
    \/ SetElevenlabsKey(TRUE)
    \/ \E n \in SliderChoices : SetSlideCount(n)
    \/ \E name \in TemplateChoices : PickTemplate(name)
    \/ Submit
    \/ ReResearch
    \/ NewFacts
    \/ CreateOutline
    \/ RegenerateSlides
    \/ ApproveAndStyle
    \/ \E key \in ThemeChoices : SelectTheme(key)
    \/ GenerateMaterials
    \/ Step5Run

\* the next button of each step: key entry, "Analyze", "Create Outline",
\* "Approve & Style", "Generate Materials" and the generation run
Forward ==
    \/ SetClaudeKey(TRUE)
    \/ SetElevenlabsKey(TRUE)
    \/ Submit
    \/ CreateOutline
    \/ ApproveAndStyle
    \/ GenerateMaterials
    \/ Step5Run

\* the wizard with every external call failing
InitOffline == Init /\ ~apis_reachable

SpecOffline == InitOffline /\ [][NextForward]_vars /\ WF_vars(Forward)

(***************************************************************************)
(* Properties.                                                             *)
(***************************************************************************)
HasSlides == "slides" \in DOMAIN lesson_data
IsTts(c) == c.op = "tts"
IsDeck(c) == c.op = "deck"
\* the slide positions of the narration calls of a run, in call order
TtsArgs(c) == LET q == SelectSeq(c, IsTts) IN [i \in 1..Len(q) |-> q[i].arg]
\* the deck the assembler builds from the stored slides
StoredDeck == create_sophisticated_powerpoint(lesson_data["slides"], lesson_data["title"], selected_theme)
\* the elements of 1..n that satisfy keep, in increasing order
Positions(n, keep(_)) ==
    LET all == [i \in 1..n |-> i] IN SelectSeq(all, keep)

\* C1: steps 4, 5 and 6 are reached only with slides_approved set; the deck
\* assembler and the narration client run only from a state where it is set;
\* and the flag goes from unset to set only by "Approve & Style" (step 3 to 4).
C1_ApprovalGate ==
    /\ [](current_step \in {4, 5, 6} => slides_approved)
    /\ [][(\E i \in 1..Len(calls') : calls'[i].op \in {"deck", "tts"}) => slides_approved]_vars
    /\ [][(~slides_approved /\ slides_approved') =>
            (current_step = 3 /\ current_step' = 4 /\ calls' = <<>>)]_vars

C1_Witness ==
    current_step = 6 /\ slides_approved /\ \E i \in 1..Len(calls) : calls[i].op = "tts"

\* C2: in every generation run the deck assembly comes first: every narration
\* call of the run is preceded by the run's deck assembly and none precedes it.
C2_DeckBeforeNarration ==
    \A i \in 1..Len(calls) :
        IsTts(calls[i]) =>
            /\ \E j \in 1..(i - 1) : IsDeck(calls[j])
            /\ \A j \in 1..Len(calls) : IsDeck(calls[j]) => j < i

C2_Witness ==
    \E i \in 1..Len(calls) : IsTts(calls[i])

\* a run of the generation step in which the assembler returns a deck
DeckRun == current_step = 5 /\ calls' # <<>> /\ Truthy(StoredDeck)

\* the slides whose narration text can be built (lines 1813-1819 do not raise)
Narratable(i) ==
    NarrationText(lesson_data["slides"].v[i].v, i,
                  Get(advanced_features, "include_pauses", TRUE)) # ReplaceRaised

AllFieldsPresent(sl) ==
    /\ sl.t = "list"
    /\ \A i \in 1..Len(sl.v) : sl.v[i].t = "dict" /\ RequiredFields \subseteq DOMAIN sl.v[i].v

C5_ReachesDownload ==
    ~apis_reachable ~> (current_step = 6 /\ Truthy(pptx_buffer) /\ audio_files = JList(<<>>))

C5_Witness ==
    /\ ~apis_reachable /\ current_step = 6
    /\ Truthy(pptx_buffer) /\ audio_files = JList(<<>>)
    /\ Len(TtsArgs(calls)) = Len(lesson_data["slides"].v)

\* the stored slide sequence is a non-empty list of dict records
StoredRecords ==
    /\ HasSlides
    /\ lesson_data["slides"].t = "list"
    /\ lesson_data["slides"].v # <<>>
    /\ \A i \in 1..Len(lesson_data["slides"].v) : lesson_data["slides"].v[i].t = "dict"

\* the positions of the stored records whose processing raises
Malformed ==
    {i \in 1..Len(lesson_data["slides"].v) : ProcessSlide(lesson_data["slides"].v[i].v).raised}

WellFormed(i) == i \notin Malformed

\* C6: from N records of which K < N are malformed the assembler returns a
\* deck of N-K+1 slides: one title slide for the lesson title, then one
\* content slide per well-formed record.
C6_DeckSlideCount ==
    (StoredRecords /\ Cardinality(Malformed) < Len(lesson_data["slides"].v)) =>
        /\ StoredDeck # NoArtifact
        /\ Len(StoredDeck.slides) = Len(lesson_data["slides"].v) - Cardinality(Malformed) + 1
        /\ StoredDeck.slides[1].title = lesson_data["title"]

\* C7: the assembler returns no artifact exactly when its input is empty or
\* not a list; otherwise the deck holds one slide per record whose processing
\* succeeds, in input order, and nothing for a record whose processing fails.
C7_PerSlideSkip ==
    HasSlides =>
        LET sl == lesson_data["slides"]
        IN  /\ (StoredDeck = NoArtifact) <=> (sl.t # "list" \/ sl.v = <<>>)
            /\ StoredDeck # NoArtifact =>
                  LET kept == Positions(Len(sl.v), WellFormed)
                  IN  StoredDeck.slides = [j \in 1..Len(kept) |-> ProcessSlide(sl.v[kept[j]].v).slide]

\* C8: whenever a slide sequence is stored, its slide_number fields are
\* exactly 1, 2, ..., n in list order.
C8_OrdinalsContiguous ==
    HasSlides =>
        LET sl == lesson_data["slides"]
        IN  /\ sl.t = "list"
            /\ \A i \in 1..Len(sl.v) :
                  /\ sl.v[i].t = "dict"
                  /\ "slide_number" \in DOMAIN sl.v[i].v
                  /\ sl.v[i].v["slide_number"] = JInt(i)

\* C9: "Regenerate Slides" at step 3 stores exactly the newly generated
\* sequence under lesson_data['slides'] and leaves every other key of
\* lesson_data, the approval flag and current_step (3) unchanged.
C9_RegenerateReplaces ==
    [][(current_step = 3 /\ calls' = <<Call("slides", 0)>>) =>
        /\ lesson_data'["slides"] \in
              {generate_enhanced_slide_content(o, slide_count) : o \in SlideOutcomes}
        /\ DOMAIN lesson_data' = DOMAIN lesson_data
        /\ \A k \in DOMAIN lesson_data \ {"slides"} : lesson_data'[k] = lesson_data[k]
        /\ current_step' = 3
        /\ slides_approved' = slides_approved]_vars

\* a regeneration that followed a sequence of different length
C9_Witness ==
    /\ current_step = 3 /\ calls = <<Call("slides", 0)>>
    /\ lesson_data["slides"].t = "list" /\ Len(lesson_data["slides"].v) = 3
    /\ {"outline", "facts", "title"} \subseteq DOMAIN lesson_data

\* C10: the stored sequence is either the fallback sequence or a non-empty
\* list whose elements all carry the five required fields.
C10_FailClosed ==
    HasSlides =>
        \/ \E n \in MinSlideCount..MaxSlideCount : lesson_data["slides"] = get_enhanced_fallback_slides(n)
        \/ /\ AllFieldsPresent(lesson_data["slides"])
           /\ lesson_data["slides"].v # <<>>

\* a markdown code fence around a JSON text: ```json ... ```
FenceOpen == <<Tick, Tick, Tick, "j", "s", "o", "n">>
FenceClose == <<Tick, Tick, Tick>>
\* the text inside the fence when the response is fenced, the response itself when it is bare
Unfenced(text) ==
    LET c == Strip(text)
    IN  IF StartsWith(c, FenceOpen) /\ EndsWith(c, FenceClose)
        THEN SubSeq(c, Len(FenceOpen) + 1, Len(c) - Len(FenceClose))
        ELSE c
\* a non-empty list of slide objects
IsSlideList(x) == x.t = "list" /\ x.v # <<>> /\ \A i \in 1..Len(x.v) : x.v[i].t = "dict"

\* C11: when the response of the slide call is a well-formed JSON list of
\* slide objects, bare or inside a markdown code fence, the sequence stored by
\* that call is exactly the parsed list (not the fallback sequence).
C11_ParsesWellFormed ==
    (slide_response.t = "text" /\ IsSlideList(json_loads(Unfenced(slide_response.v)))) =>
        lesson_data["slides"] = json_loads(Unfenced(slide_response.v))

\* a script run at step 1 that made a research or a facts call
AnalysisRun ==
    current_step = 1 /\ \E i \in 1..Len(calls') : calls'[i].op \in {"research", "facts"}

\* C12: every submit at step 1 ends at step 2 with lesson_data['facts'] a
\* non-empty string, whether the file read, the research call and the facts
\* call succeeded or raised; from step 2 on the facts are never empty.
C12_FactsAlwaysSet ==
    /\ [][AnalysisRun =>
            /\ current_step' = 2
            /\ "facts" \in DOMAIN lesson_data'
            /\ lesson_data'["facts"] \in {"Facts text", "Unable to generate facts due to API error."}
            /\ lesson_data'["facts"] # ""]_vars
    /\ [](current_step >= 2 => ("facts" \in DOMAIN lesson_data /\ lesson_data["facts"] # ""))

\* a submit in which the file read, the research call and the facts call all failed
C12_Witness ==
    /\ current_step = 2
    /\ calls = <<Call("research", 0), Call("facts", 0)>>
    /\ lesson_data["content"] = extract_text_from_file("undecodable")
    /\ lesson_data["research_data"] = conduct_deep_research(lesson_data["title"], Raised)
    /\ lesson_data["facts"] = "Unable to generate facts due to API error."

\* the request fields and the source the submit of a step-1 script run was given
SubmitGuard ==
    /\ lesson_data'["title"] # ""
    /\ lesson_data'["objectives"] # ""
    /\ \/ DOMAIN lesson_data # {}
       \/ lesson_data'["content"] \in {extract_text_from_file(f) : f \in FileKinds}

\* C13: the step from 1 to 2, and any research or facts call made at step 1,
\* happens only with a non-empty title, non-empty objectives and either an
\* uploaded file or lesson data already stored; otherwise current_step stays
\* 1 and no external call is made.
C13_StepOneGuard ==
    [][(current_step = 1 /\ (current_step' # 1 \/ calls' # <<>>)) =>
            (AnalysisRun /\ current_step' = 2 /\ SubmitGuard)]_vars

\* a submit without a file, on the lesson data of a template pick
C13_Witness ==
    /\ current_step = 2
    /\ calls = <<Call("facts", 0)>>
    /\ lesson_data["content"] = TemplateData("Scientific Discovery").content
    /\ lesson_data["title"] = "Volcanoes"

\* C14: a script run in which either API key is absent issues no external
\* call and changes no session state; while a key is absent the only thing
\* the user can do is edit a key field.
C14_CredentialsGate ==
    /\ [][~(claude_key' /\ elevenlabs_key') => (calls' = <<>> /\ UNCHANGED session)]_vars
    /\ [][~KeysPresent => (claude_key' # claude_key \/ elevenlabs_key' # elevenlabs_key)]_vars

\* a key cleared in the middle of the generation step
C14_Witness ==
    current_step = 5 /\ slides_approved /\ ~KeysPresent /\ calls = <<>>

\* a run of the generation step in which the assembler returns no artifact
FailedDeckRun == current_step = 5 /\ calls' # <<>> /\ ~Truthy(StoredDeck)

\* C15: when the deck assembler returns no artifact, the run stays at step 5,
\* issues no narration call, stores no deck and no audio and appends no
\* record to the generation history.
C15_DeckFailureBlocks ==
    [][FailedDeckRun =>
        /\ current_step' = 5
        /\ calls' = <<Call("deck", 0)>>
        /\ pptx_buffer' = Absent /\ audio_files' = Absent
        /\ generation_history' = generation_history
        /\ lesson_data' = lesson_data]_vars

\* a failed run on an approved empty slide list
C15_Witness ==
    /\ current_step = 5 /\ calls = <<Call("deck", 0)>>
    /\ lesson_data["slides"] = JList(<<>>)
    /\ pptx_buffer = Absent /\ audio_files = Absent

\* the page after a generation run whose deck assembly returned no artifact
DeckFailureShown ==
    /\ current_step = 5 /\ KeysPresent /\ slides_approved
    /\ calls = <<Call("deck", 0)>>
    /\ ~Truthy(StoredDeck)

\* C16: after a generation run whose deck assembly returned no artifact, the
\* user has an action that takes the wizard back to an earlier step.
C16_BackAfterDeckFailure ==
    DeckFailureShown => ENABLED (Next /\ current_step' < current_step)

\* C17: a step backwards from step 2, 3 or 4 goes back exactly one step,
\* leaves lesson_data, slides_approved, selected_theme and the stored
\* artifacts as they were, and issues no external call.
C17_BackKeepsData ==
    [][(current_step \in 2..5 /\ current_step' < current_step) =>
        /\ current_step \in {2, 3, 4}
        /\ current_step' = current_step - 1
        /\ UNCHANGED <<lesson_data, slides_approved, selected_theme, advanced_features,
                       generation_history, pptx_buffer, audio_files>>
        /\ calls' = <<>>]_vars

\* back at step 1 from step 4, with the slides and the approval still stored
C17_Witness ==
    /\ current_step = 1 /\ slides_approved /\ HasSlides
    /\ "outline" \in DOMAIN lesson_data /\ selected_theme = "dark"
    /\ calls = <<>>

\* C18: leaving step 6 ("Create New Lesson") puts the wizard at step 1 with
\* lesson_data empty, slides_approved false, selected_theme at its default
\* and no deck and no audio stored.
C18_StartOverDiscards ==
    [][(current_step = 6 /\ current_step' # 6) =>
        /\ current_step' = 1
        /\ lesson_data' = NoData
        /\ slides_approved' = FALSE
        /\ selected_theme' = "minimalist"
        /\ pptx_buffer' = Absent /\ audio_files' = Absent
        /\ calls' = <<>>]_vars

\* the first page after a start over
C18_Witness ==
    /\ current_step = 1 /\ generation_history # <<>>
    /\ lesson_data = NoData /\ ~slides_approved
    /\ pptx_buffer = Absent /\ audio_files = Absent

\* C19: slides_approved, once set, is reset only by the start over at step 6:
\* going back, regenerating the slides, re-creating the outline and
\* re-submitting step 1 all leave it set.
C19_ApprovalOneWay ==
    [][(slides_approved /\ ~slides_approved') => (current_step = 6 /\ current_step' = 1)]_vars

\* the flag is set while step 3 shows a sequence generated after the approval
C19_Witness ==
    /\ current_step = 3 /\ slides_approved
    /\ calls = <<Call("outline", 0), Call("slides", 0)>>
    /\ generation_history = <<>>

\* a record with a string title and a list of non-empty string bullet points
PlainRecord(d) ==
    /\ "title" \in DOMAIN d /\ IsStr(d["title"])
    /\ "content" \in DOMAIN d /\ d["content"].t = "list"
    /\ \A j \in 1..Len(d["content"].v) : IsStr(d["content"].v[j]) /\ d["content"].v[j].v # ""
    /\ ~ProcessSlide(d).raised

\* C20: the deck slide built from a record carries the record's title and
\* exactly the record's bullet points, in order, as level-0 paragraphs,
\* whatever the record's layout_style.
C20_DeckRoundTrip ==
    (StoredRecords /\ StoredDeck # NoArtifact) =>
        \A i \in 1..Len(lesson_data["slides"].v) :
            LET d == lesson_data["slides"].v[i].v
            IN  PlainRecord(d) =>
                  /\ StoredDeck.slides[i].title = d["title"].v
                  /\ StoredDeck.slides[i].body =
                        [j \in 1..Len(d["content"].v) |-> Para(d["content"].v[j].v)]

\* C21: a slide call that fails with an authentication error halts the
\* operation: the step counter does not advance and nothing (no fallback
\* slide sequence, no outline) is written into lesson_data.
C21_AuthErrorHalts ==
    [][slide_response' = AuthenticationError =>
            (current_step' = current_step /\ lesson_data' = lesson_data)]_vars

\* C22: every prompt of the content client holds only a bounded prefix of each
\* input: the facts prompt at most 2000 characters of the source text, the
\* outline prompt at most 1500 of the source text and 800 of the facts, the
\* slide prompt at most 1000 of the outline and 500 of the objectives.
C22_PromptsTruncated ==
    \A i \in 1..Len(prompts) :
        LET p == prompts[i]
        IN  /\ p.op = "facts" => p.source.chars <= 2000
            /\ p.op = "outline" => (p.source.chars <= 1500 /\ p.facts.chars <= 800)
            /\ p.op = "slides" => (p.outline.chars <= 1000 /\ p.objectives.chars <= 500)

\* C23: the text posted to the speech endpoint for a slide is never longer
\* than 500 characters plus the three of the ellipsis marker.
C23_NarrationBounded ==
    \A i \in 1..Len(calls) : IsTts(calls[i]) => NarrationChars(calls[i].text) <= 500 + 3

\* C24: nothing is retried without an explicit action: one script run makes
\* each content call at most once and each slide's narration call at most
\* once, and from the page that follows a failed deck assembly (step 5, which
\* offers no submit, regenerate or generate button) no assembly is attempted again.
C24_NoAutomaticRetry ==
    /\ [](\A i, j \in 1..Len(calls) :
            (i # j /\ calls[i].op = calls[j].op) =>
                (IsTts(calls[i]) /\ calls[i].arg # calls[j].arg))
    /\ [][DeckFailureShown => \A i \in 1..Len(calls') : ~IsDeck(calls'[i])]_vars

\* C25: current_step is always in 1..6 and changes only in these ways: 1 to 2
\* by the submit, 2 to 3 by "Create Outline", 3 to 4 by the approval, 4 to 5 by
\* "Generate Materials", 5 to 6 by a generation run that stored a deck, one
\* step down by a back button (which calls nothing and keeps the lesson
\* data), and 6 to 1 by "Create New Lesson".
C25_StepCounter ==
    /\ [](current_step \in 1..6)
    /\ [][current_step' # current_step =>
            \/ /\ current_step = 1 /\ current_step' = 2
               /\ \E i \in 1..Len(calls') : calls'[i] = Call("facts", 0)
            \/ /\ current_step = 2 /\ current_step' = 3
               /\ calls' = <<Call("outline", 0), Call("slides", 0)>>
            \/ current_step = 3 /\ current_step' = 4 /\ slides_approved' /\ calls' = <<>>
            \/ current_step = 4 /\ current_step' = 5 /\ calls' = <<>>
            \/ /\ current_step = 5 /\ current_step' = 6
               /\ calls' # <<>> /\ IsDeck(calls'[1]) /\ Truthy(pptx_buffer')
            \/ /\ current_step \in {2, 3, 4} /\ current_step' = current_step - 1
               /\ calls' = <<>> /\ lesson_data' = lesson_data
            \/ current_step = 6 /\ current_step' = 1 /\ lesson_data' = NoData]_vars

\* back at step 3 from step 4, in a session that has been through all six
\* steps and "Create New Lesson" before
C25_Witness ==
    current_step = 3 /\ slides_approved /\ Len(generation_history) >= 1 /\ calls = <<>>

\* the fields of the lesson request (lines 1451-1457)
RequestFields == {"title", "subject", "grade_level", "duration", "objectives", "content"}

\* C26: from step 2 on, no step other than "Create New Lesson" changes the
\* title, subject, grade_level, duration, objectives or content of lesson_data.
C26_RequestImmutable ==
    [][(current_step >= 2 /\ ~(current_step = 6 /\ current_step' = 1)) =>
            \A f \in RequestFields :
                /\ f \in DOMAIN lesson_data /\ f \in DOMAIN lesson_data'
                /\ lesson_data'[f] = lesson_data[f]]_vars

\* a session at the results step whose lesson data went through new facts,
\* outline, slides and generation with the request as it was submitted
C26_Witness ==
    /\ current_step = 6 /\ calls # <<>>
    /\ lesson_data["title"] = "Volcanoes" /\ lesson_data["content"] = "Uploaded lesson text"
    /\ lesson_data["objectives"] = "Explain how eruptions happen"

\* lesson_data' differs from lesson_data at most under key k
OnlyKeyChanged(k) ==
    /\ DOMAIN lesson_data' = DOMAIN lesson_data
    /\ \A x \in DOMAIN lesson_data \ {k} : lesson_data'[x] = lesson_data[x]

\* C27: at step 2 "New Facts" replaces only lesson_data['facts'] and
\* "Re-research" only lesson_data['research_data']; the step stays 2 and
\* every other session value is kept, an outline and slides stored before
\* the back navigation included.
C27_RegenerateReplacesOneKey ==
    /\ [][(current_step = 2 /\ calls' = <<Call("facts", 0)>>) =>
            (OnlyKeyChanged("facts") /\ current_step' = 2 /\ UNCHANGED
                <<slides_approved, selected_theme, advanced_features,
                  generation_history, pptx_buffer, audio_files>>)]_vars
    /\ [][(current_step = 2 /\ calls' = <<Call("research", 0)>>) =>
            (OnlyKeyChanged("research_data") /\ current_step' = 2 /\ UNCHANGED
                <<slides_approved, selected_theme, advanced_features,
                  generation_history, pptx_buffer, audio_files>>)]_vars

\* new facts have replaced the ones an outline and slides were made from:
\* the facts call failed this time, the stored outline and slides are still there
C27_Witness ==
    /\ current_step = 2 /\ calls = <<Call("facts", 0)>>
    /\ lesson_data["facts"] = "Unable to generate facts due to API error."
    /\ "outline" \in DOMAIN lesson_data /\ lesson_data["outline"] = "Outline text"
    /\ "slides" \in DOMAIN lesson_data /\ HasSlides

\* C28: selected_theme is always one of the six theme keys, so the lookups
\* of steps 4 and 5 find a name; it changes only by a theme button at step 4,
\* which keeps the step, the lesson data, the approval and the stored
\* results and calls nothing, and by "Create New Lesson", which puts back
\* 'minimalist'.
C28_ThemeSelection ==
    /\ [](selected_theme \in ThemeSet /\ theme_name(selected_theme) # StopIteration)
    /\ [][selected_theme' # selected_theme =>
            \/ /\ current_step = 4 /\ current_step' = 4 /\ calls' = <<>> /\ prompts' = <<>>
               /\ UNCHANGED <<lesson_data, slides_approved, advanced_features,
                              generation_history, pptx_buffer, audio_files>>
            \/ current_step = 6 /\ current_step' = 1 /\ selected_theme' = "minimalist"]_vars

\* a deck generated under a theme picked at step 4
C28_Witness ==
    current_step = 6 /\ selected_theme = "dark" /\ Truthy(pptx_buffer) /\ calls # <<>>

\* C29: a generation run that reaches step 6 stores in audio_files at most
\* one entry per slide, with strictly increasing slide positions in the file
\* names, and the entry of position i is there exactly when the narration
\* call for slide i came back with audio that is not empty.
C29_NarrationAssets ==
    [][(current_step = 5 /\ current_step' = 6) =>
        LET files == audio_files'.v
            slides == lesson_data["slides"].v
            tts == SelectSeq(calls', IsTts)
        IN  /\ Len(files) <= Len(slides)
            /\ \A a, b \in 1..Len(files) : a < b => files[a].name.index < files[b].name.index
            /\ \A a \in 1..Len(files) : files[a].name.index \in 1..Len(slides)
            /\ \A i \in 1..Len(slides) :
                  (\E a \in 1..Len(files) : files[a].name.index = i)
                      <=> (\E c \in 1..Len(tts) : tts[c].arg = i /\ tts[c].audio)]_vars

\* C30: from step 3 on, the stored outline was generated from the stored
\* facts and the stored slides from the stored outline; every step from 2 to
\* 3 generates both again.
C30_DerivationFresh ==
    /\ [](current_step >= 3 =>
            /\ derived_from.outline = JStr(lesson_data["facts"])
            /\ derived_from.slides = JStr(lesson_data["outline"]))
    /\ [][(current_step = 2 /\ current_step' = 3) =>
            \E i, j \in 1..Len(prompts') :
                /\ i < j /\ prompts'[i].op = "outline" /\ prompts'[j].op = "slides"
                /\ prompts'[i].facts.of = lesson_data'["facts"]
                /\ prompts'[j].outline.of = lesson_data'["outline"]]_vars

\* "Create Outline" pressed again after the approval, two back steps and
\* facts that are not the ones the approved outline was made from
C30_Witness ==
    /\ current_step = 3 /\ slides_approved
    /\ calls = <<Call("outline", 0), Call("slides", 0)>>
    /\ lesson_data["facts"] = "Unable to generate facts due to API error."
    /\ lesson_data["outline"] = "Outline text"
    /\ derived_from = [outline |-> JStr(lesson_data["facts"]), slides |-> JStr("Outline text")]

\* C31: the deck stored at step 6 is the one the assembler builds from the
\* slides approved last and from the theme selected at step 6: the approval
\* (step 3 to 4) keeps the lesson data, no step taken from step 4, 5 or 6 to
\* step 4, 5 or 6 changes lesson_data['slides'], and no step taken from step
\* 5 or 6 to step 5 or 6 changes selected_theme.
C31_DeckFromApprovedSlides ==
    /\ [](current_step = 6 => (Truthy(pptx_buffer) /\ pptx_buffer = StoredDeck))
    /\ [][(current_step = 3 /\ current_step' = 4) =>
            (slides_approved' /\ lesson_data' = lesson_data)]_vars
    /\ [][(current_step >= 4 /\ current_step' >= 4) =>
            lesson_data'["slides"] = lesson_data["slides"]]_vars
    /\ [][(current_step \in {5, 6} /\ current_step' \in {5, 6}) =>
            selected_theme' = selected_theme]_vars

\* the results page, revisited after a slider move, with a deck of the theme
\* picked at step 4 and one slide per approved record
C31_Witness ==
    /\ current_step = 6 /\ calls = <<>> /\ Truthy(pptx_buffer)
    /\ pptx_buffer.theme = "dark" /\ selected_theme = "dark"
    /\ Len(pptx_buffer.slides) = Len(lesson_data["slides"].v)

\* C32: from step 2 on lesson_data holds title, objectives, content and
\* facts; from step 3 on also outline and slides; at step 6 a deck that is
\* not null and a list of audio files are stored.
C32_ArtifactsDefined ==
    /\ current_step >= 2 => {"title", "objectives", "content", "facts"} \subseteq DOMAIN lesson_data
    /\ current_step >= 3 => {"outline", "slides"} \subseteq DOMAIN lesson_data
    /\ current_step = 6 =>
          (pptx_buffer # Absent /\ pptx_buffer # JNull /\ audio_files # Absent /\ audio_files.t = "list")

\* step 2 reached again by a second submit made from a picked template,
\* after a full round and a start over
C32_Witness ==
    /\ current_step = 2 /\ generation_history # <<>>
    /\ lesson_data["content"] = TemplateData("Scientific Discovery").content
    /\ "facts" \in DOMAIN lesson_data /\ "outline" \notin DOMAIN lesson_data

\* C33: generation_history changes only by one record appended on the step
\* from 5 to 6, which always appends one; every record has success true;
\* "Create New Lesson" keeps the history and advanced_features and puts
\* every other session value back to its initial value.
C33_GenerationHistory ==
    /\ [](\A i \in 1..Len(generation_history) : generation_history[i].success = TRUE)
    /\ [][generation_history' # generation_history =>
            /\ current_step = 5 /\ current_step' = 6
            /\ Len(generation_history') = Len(generation_history) + 1
            /\ SubSeq(generation_history', 1, Len(generation_history)) = generation_history]_vars
    /\ [][(current_step = 5 /\ current_step' = 6) =>
            Len(generation_history') = Len(generation_history) + 1]_vars
    /\ [][(current_step = 6 /\ current_step' = 1) =>
            /\ generation_history' = generation_history
            /\ advanced_features' = advanced_features
            /\ lesson_data' = NoData /\ slides_approved' = FALSE
            /\ selected_theme' = "minimalist"
            /\ pptx_buffer' = Absent /\ audio_files' = Absent]_vars

\* the results page of the second lesson of a session: one record from
\* before the start over, one from the run that just ended
C33_Witness ==
    /\ current_step = 6 /\ Len(generation_history) = 2
    /\ calls # <<>> /\ IsDeck(calls[1])

\* the fallback for count is a list of count dicts numbered 1..count in
\* order, each with a title, three bullet points, speaker notes and an
\* image description
FallbackShape(count) ==
    LET r == get_enhanced_fallback_slides(count)
    IN  /\ r.t = "list" /\ Len(r.v) = count
        /\ \A i \in 1..Len(r.v) :
              LET d == r.v[i].v
              IN  /\ r.v[i].t = "dict"
                  /\ {"slide_number", "title", "content", "speaker_notes", "image_description"}
                        \subseteq DOMAIN d
                  /\ d["slide_number"] = JInt(i)
                  /\ IsStr(d["title"]) /\ d["title"].v # ""
                  /\ d["content"].t = "list" /\ Len(d["content"].v) = 3
                  /\ \A k \in 1..3 : IsStr(d["content"].v[k])
                  /\ IsStr(d["speaker_notes"]) /\ IsStr(d["image_description"])

\* every count the function is specified for, up to the top of the slider
FallbackShapes == \A count \in 2..MaxSlideCount : FallbackShape(count)

\* the slide call of the last script run ended in the fallback: it raised,
\* or what it returned did not parse
FellBack ==
    /\ slide_response # NoResponse
    /\ \/ slide_response.t = "raise"
       \/ json_loads(StripFence(Strip(slide_response.v))) = JSONDecodeError

\* C34: for every count from 2 to MaxSlideCount the fallback has the shape
\* above, and the fallback the wizard stores is the one for the configured
\* slide count (MinSlideCount..MaxSlideCount, DefaultSlideCount when the
\* slider was never moved), whatever the lesson input.
C34_FallbackShape ==
    /\ FallbackShapes
    /\ FellBack =>
          /\ slide_count \in MinSlideCount..MaxSlideCount
          /\ lesson_data["slides"] = get_enhanced_fallback_slides(slide_count)

\* the fallback stored for a slider moved to its lowest position, after a
\* response that did not parse
C34_Witness ==
    /\ current_step = 3 /\ FellBack /\ slide_response.t = "text"
    /\ slide_count = MinSlideCount
    /\ Len(lesson_data["slides"].v) = MinSlideCount

====
